---- MODULE Spec2Model ----
(***************************************************************************)
(* Fake-Forward Verifier: the verification pipeline of the React App       *)
(* (handleVerify, handleImageUpload, goHome) and of the Gemini service     *)
(* module (parseJSON, verifyText, generateSummary, performOCR).            *)
(*                                                                         *)
(* JavaScript strings are TLA+ strings; a JavaScript value is a record     *)
(* tagged by its type.  JSON.parse, String.prototype.trim, includes,       *)
(* replace and the || operator are modelled by what they compute.          *)
(***************************************************************************)
EXTENDS Integers, Sequences, FiniteSets, TLC

----------------------------------------------------------------------------
(* JavaScript values *)

JUndefined == [t |-> "undef"]
JNull == [t |-> "null"]
JBool(b) == [t |-> "bool", b |-> b]
\* a number literal: sign, integer part and the digits after the point
JNum(neg, n, frac) == [t |-> "num", neg |-> neg, n |-> n, frac |-> frac]
JInt(n) == JNum(FALSE, n, "")
JStr(s) == [t |-> "str", s |-> s]
JArr(a) == [t |-> "arr", a |-> a]
\* an object: its members in source order, as <<key, value>> pairs
JObj(kv) == [t |-> "obj", kv |-> kv]

Ch(s, i) == IF i >= 1 /\ i <= Len(s) THEN SubSeq(s, i, i) ELSE ""

Digits == {"0", "1", "2", "3", "4", "5", "6", "7", "8", "9"}

DigitVal(c) ==
  CASE c = "0" -> 0 [] c = "1" -> 1 [] c = "2" -> 2 [] c = "3" -> 3
    [] c = "4" -> 4 [] c = "5" -> 5 [] c = "6" -> 6 [] c = "7" -> 7
    [] c = "8" -> 8 [] c = "9" -> 9

RECURSIVE AllZero(_)
AllZero(s) == IF s = "" THEN TRUE ELSE Head(s) = "0" /\ AllZero(Tail(s))

\* ToBoolean, as used by the || and ! operators
Truthy(v) ==
  CASE v.t = "undef" -> FALSE
    [] v.t = "null" -> FALSE
    [] v.t = "bool" -> v.b
    [] v.t = "num" -> ~(v.n = 0 /\ AllZero(v.frac))
    [] v.t = "str" -> v.s # ""
    [] OTHER -> TRUE

\* a || b
Or(a, b) == IF Truthy(a) THEN a ELSE b

RECURSIVE Lookup(_, _, _)
Lookup(kv, key, i) ==
  IF i = 0 THEN JUndefined
  ELSE IF kv[i][1] = key THEN kv[i][2] ELSE Lookup(kv, key, i - 1)

\* v.key for a value that is neither null nor undefined (a duplicated key
\* keeps its last value); the fields read here are no built-in property of
\* strings, numbers, booleans or arrays
GetProp(v, key) == IF v.t = "obj" THEN Lookup(v.kv, key, Len(v.kv)) ELSE JUndefined

\* reading a property of null or undefined throws a TypeError
PropThrows(v) == v.t \in {"null", "undef"}

----------------------------------------------------------------------------
(* JSON.parse *)

JsonWs == {" ", "\t", "\n", "\r"}

RECURSIVE SkipWs(_, _)
SkipWs(s, i) == IF Ch(s, i) \in JsonWs THEN SkipWs(s, i + 1) ELSE i

Fail == [ok |-> FALSE, v |-> JUndefined, i |-> 0]
Ok(v, i) == [ok |-> TRUE, v |-> v, i |-> i]

\* the characters a JSON string may hold unescaped
ControlChars == {"\t", "\n", "\r", "\f"}

Unescape(c) ==
  CASE c = "\"" -> "\"" [] c = "\\" -> "\\" [] c = "/" -> "/"
    [] c = "n" -> "\n" [] c = "t" -> "\t" [] c = "r" -> "\r" [] c = "f" -> "\f"

Escapable == {"\"", "\\", "/", "n", "t", "r", "f"}

\* the string whose opening quote is at i - 1, decoded so far into acc
RECURSIVE ParseChars(_, _, _)
ParseChars(s, i, acc) ==
  LET c == Ch(s, i) IN
  IF c = "" \/ c \in ControlChars THEN Fail
  ELSE IF c = "\"" THEN Ok(JStr(acc), i + 1)
  ELSE IF c = "\\" THEN
    IF Ch(s, i + 1) \in Escapable
    THEN ParseChars(s, i + 2, acc \o Unescape(Ch(s, i + 1)))
    ELSE Fail
  ELSE ParseChars(s, i + 1, acc \o c)

RECURSIVE ParseDigits(_, _, _)
ParseDigits(s, i, n) ==
  IF Ch(s, i) \in Digits THEN ParseDigits(s, i + 1, 10 * n + DigitVal(Ch(s, i)))
  ELSE [n |-> n, i |-> i]

RECURSIVE DigitsEnd(_, _)
DigitsEnd(s, i) == IF Ch(s, i) \in Digits THEN DigitsEnd(s, i + 1) ELSE i

\* -? (0 | [1-9][0-9]*) (. [0-9]+)?
ParseNumber(s, i) ==
  LET neg == Ch(s, i) = "-"
      j == IF neg THEN i + 1 ELSE i
      int == IF Ch(s, j) = "0" THEN [n |-> 0, i |-> j + 1] ELSE ParseDigits(s, j, 0)
      k == int.i
      e == DigitsEnd(s, k + 1)
  IN IF Ch(s, j) \notin Digits THEN Fail
     ELSE IF Ch(s, k) = "."
       THEN IF e = k + 1 THEN Fail
            ELSE Ok(JNum(neg, int.n, SubSeq(s, k + 1, e - 1)), e)
       ELSE Ok(JNum(neg, int.n, ""), k)

IsLit(s, i, lit) == i + Len(lit) - 1 <= Len(s) /\ SubSeq(s, i, i + Len(lit) - 1) = lit

RECURSIVE ParseValue(_, _)
RECURSIVE ParseMembers(_, _, _)
RECURSIVE ParseElements(_, _, _)

\* the members of an object from position i (a key is expected), after acc
ParseMembers(s, i, acc) ==
  IF Ch(s, i) # "\"" THEN Fail
  ELSE LET k == ParseChars(s, i + 1, "") IN
    IF ~k.ok THEN Fail
    ELSE LET c == SkipWs(s, k.i) IN
      IF Ch(s, c) # ":" THEN Fail
      ELSE LET v == ParseValue(s, SkipWs(s, c + 1)) IN
        IF ~v.ok THEN Fail
        ELSE LET n == SkipWs(s, v.i)
                 acc2 == Append(acc, <<k.v.s, v.v>>)
             IN IF Ch(s, n) = "}" THEN Ok(JObj(acc2), n + 1)
                ELSE IF Ch(s, n) = "," THEN ParseMembers(s, SkipWs(s, n + 1), acc2)
                ELSE Fail

\* the elements of an array from position i (a value is expected), after acc
ParseElements(s, i, acc) ==
  LET v == ParseValue(s, i) IN
  IF ~v.ok THEN Fail
  ELSE LET n == SkipWs(s, v.i)
           acc2 == Append(acc, v.v)
       IN IF Ch(s, n) = "]" THEN Ok(JArr(acc2), n + 1)
          ELSE IF Ch(s, n) = "," THEN ParseElements(s, SkipWs(s, n + 1), acc2)
          ELSE Fail

ParseValue(s, i) ==
  LET c == Ch(s, i) IN
  IF c = "{" THEN
    LET j == SkipWs(s, i + 1) IN
    IF Ch(s, j) = "}" THEN Ok(JObj(<<>>), j + 1) ELSE ParseMembers(s, j, <<>>)
  ELSE IF c = "[" THEN
    LET j == SkipWs(s, i + 1) IN
    IF Ch(s, j) = "]" THEN Ok(JArr(<<>>), j + 1) ELSE ParseElements(s, j, <<>>)
  ELSE IF c = "\"" THEN ParseChars(s, i + 1, "")
  ELSE IF c = "-" \/ c \in Digits THEN ParseNumber(s, i)
  ELSE IF IsLit(s, i, "true") THEN Ok(JBool(TRUE), i + 4)
  ELSE IF IsLit(s, i, "false") THEN Ok(JBool(FALSE), i + 5)
  ELSE IF IsLit(s, i, "null") THEN Ok(JNull, i + 4)
  ELSE Fail

\* JSON.parse(text): the value, or ok = FALSE for a SyntaxError
JSONparse(text) ==
  LET r == ParseValue(text, SkipWs(text, 1)) IN
  IF r.ok /\ SkipWs(text, r.i) = Len(text) + 1 THEN Ok(r.v, r.i) ELSE Fail

----------------------------------------------------------------------------
(* String methods *)

\* s.indexOf(c) for a one-character c: 0-based, -1 when absent
RECURSIVE IndexFrom(_, _, _)
IndexFrom(s, c, i) ==
  IF i > Len(s) THEN -1
  ELSE IF Ch(s, i) = c THEN i - 1 ELSE IndexFrom(s, c, i + 1)

IndexOf(s, c) == IndexFrom(s, c, 1)

\* s.lastIndexOf(c): 0-based, -1 when absent
RECURSIVE LastIndexFrom(_, _, _)
LastIndexFrom(s, c, i) ==
  IF i < 1 THEN -1
  ELSE IF Ch(s, i) = c THEN i - 1 ELSE LastIndexFrom(s, c, i - 1)

LastIndexOf(s, c) == LastIndexFrom(s, c, Len(s))

Clamp(n, len) == IF n < 0 THEN 0 ELSE IF n > len THEN len ELSE n

\* s.substring(start, end): both clamped to 0..length and swapped when
\* start > end
Substring(s, start, end) ==
  LET a == Clamp(start, Len(s))
      b == Clamp(end, Len(s))
      lo == IF a <= b THEN a ELSE b
      hi == IF a <= b THEN b ELSE a
  IN SubSeq(s, lo + 1, hi)

StartsAt(s, i, pat) == i + Len(pat) - 1 <= Len(s) /\ SubSeq(s, i, i + Len(pat) - 1) = pat

\* s.replace(/pat/g, rep) for a literal, non-empty pat
RECURSIVE ReplaceFrom(_, _, _, _)
ReplaceFrom(s, i, pat, rep) ==
  IF i > Len(s) THEN ""
  ELSE IF StartsAt(s, i, pat) THEN rep \o ReplaceFrom(s, i + Len(pat), pat, rep)
  ELSE Ch(s, i) \o ReplaceFrom(s, i + 1, pat, rep)

ReplaceAll(s, pat, rep) == ReplaceFrom(s, 1, pat, rep)

\* s.includes(pat)
RECURSIVE IncludesFrom(_, _, _)
IncludesFrom(s, i, pat) ==
  IF i + Len(pat) - 1 > Len(s) THEN FALSE
  ELSE StartsAt(s, i, pat) \/ IncludesFrom(s, i + 1, pat)

Includes(s, pat) == IncludesFrom(s, 1, pat)

\* the white space String.prototype.trim removes
TrimWs == {" ", "\t", "\n", "\r", "\f"}

RECURSIVE TrimStart(_)
TrimStart(s) == IF s # "" /\ Head(s) \in TrimWs THEN TrimStart(Tail(s)) ELSE s

RECURSIVE TrimEnd(_)
TrimEnd(s) ==
  IF s # "" /\ Ch(s, Len(s)) \in TrimWs THEN TrimEnd(SubSeq(s, 1, Len(s) - 1)) ELSE s

\* trim left out: the text is tested as it is
Trim_NoTrim(s) == s

\* s.trim()
Trim(s) == TrimEnd(TrimStart(s))

----------------------------------------------------------------------------
(* Outcomes of a call: a returned value or a thrown error *)

Return(v) == [ok |-> TRUE, v |-> v]
Throw(e) == [ok |-> FALSE, err |-> e]

\* new Error(message), and the errors the runtime raises
JError(message) == [t |-> "error", name |-> "Error", message |-> message]
SyntaxError == [t |-> "error", name |-> "SyntaxError", message |-> "Unexpected token in JSON"]
TypeError(prop) ==
  [t |-> "error", name |-> "TypeError",
   message |-> "Cannot read properties of null (reading '" \o prop \o "')"]

----------------------------------------------------------------------------
(* services/geminiService: parseJSON *)

NoJsonMsg == "No JSON object found in response"

JSONparseOrThrow(text) ==
  LET r == JSONparse(text) IN IF r.ok THEN Return(r.v) ELSE Throw(SyntaxError)

parseJSON(text) ==
  LET direct == JSONparseOrThrow(text) IN
  IF direct.ok THEN direct
  ELSE
    LET firstBrace == IndexOf(text, "{")
        lastBrace == LastIndexOf(text, "}")
    IN IF firstBrace # -1 /\ lastBrace # -1
       THEN LET jsonCandidate == Substring(text, firstBrace, lastBrace + 1)
                second == JSONparseOrThrow(jsonCandidate)
                cleaned == ReplaceAll(ReplaceAll(jsonCandidate, "\\n", " "), "\\\"", "\"")
            IN IF second.ok THEN second ELSE JSONparseOrThrow(cleaned)
       ELSE Throw(JError(NoJsonMsg))

----------------------------------------------------------------------------
(* The generative backend: ai.models.generateContent *)

\* a response: its text (a string or undefined) and its candidates
\* (undefined or an array)
Response(text, candidates) == [kind |-> "response", text |-> text, candidates |-> candidates]
\* a rejected call
Rejected(err) == [kind |-> "throw", err |-> err]

Candidate(groundingMetadata) == [t |-> "obj", groundingMetadata |-> groundingMetadata]
GroundingMetadata(groundingChunks) == [t |-> "obj", groundingChunks |-> groundingChunks]
Chunk(web) == [t |-> "obj", web |-> web]
Web(uri, title) == [t |-> "obj", uri |-> uri, title |-> title]

----------------------------------------------------------------------------
(* services/geminiService: verifyText, generateSummary, performOCR *)

NoResponseMsg == "No response from verification model"
MalformedMsg == "The AI verification response was malformed or incomplete. This can happen with ambiguous inputs or temporary service glitches. Please try again."
GenericVerifyMsg == "Failed to process verification request. Please check your internet connection or try again later."
SummaryFailedText == "Verification complete."
SummaryEmptyText == "Check verified sources."
OcrFailedMsg == "Failed to read text from image. Ensure the image is clear."

\* response.candidates?.[0]?.groundingMetadata?.groundingChunks
GroundingChunks(response) ==
  IF response.candidates.t = "undef" THEN JUndefined
  ELSE IF Len(response.candidates.a) = 0 THEN JUndefined
  ELSE IF response.candidates.a[1].groundingMetadata.t = "undef" THEN JUndefined
  ELSE response.candidates.a[1].groundingMetadata.groundingChunks

\* chunk.web?.uri
WebUri(chunk) == IF chunk.web.t = "undef" THEN JUndefined ELSE chunk.web.uri

\* the loop over the grounding chunks
RECURSIVE CitationsOf(_)
CitationsOf(chunks) ==
  IF chunks = <<>> THEN <<>>
  ELSE LET chunk == Head(chunks) IN
    (IF Truthy(WebUri(chunk))
     THEN <<[title |-> Or(chunk.web.title, JStr("Source Link")), url |-> chunk.web.uri]>>
     ELSE <<>>) \o CitationsOf(Tail(chunks))

\* only the first grounding chunk is looked at
Citations_FirstChunkOnly(response) ==
  IF Truthy(GroundingChunks(response)) /\ GroundingChunks(response).a # <<>>
  THEN CitationsOf(<<Head(GroundingChunks(response).a)>>)
  ELSE <<>>

\* the citations extracted from the grounding metadata of the response
Citations(response) ==
  IF Truthy(GroundingChunks(response)) THEN CitationsOf(GroundingChunks(response).a) ELSE <<>>

\* the object built by the return statement
VerificationOf(parsedResult, citations) ==
  [t |-> "obj",
   verdict |-> Or(GetProp(parsedResult, "verdict"), JStr("Unverified")),
   confidence |-> Or(GetProp(parsedResult, "confidence"), JInt(0)),
   explanation |-> Or(GetProp(parsedResult, "explanation"), JStr("No explanation provided.")),
   category |-> Or(GetProp(parsedResult, "category"), JStr("Other")),
   citations |-> citations,
   summary |-> GetProp(parsedResult, "summary")]

\* a parse failure defaults to an all-default result instead of throwing
VerifyParsed_DefaultOnParseFailure(parsed, response) ==
  IF ~parsed.ok THEN Return(VerificationOf(JObj(<<>>), Citations(response)))
  ELSE IF PropThrows(parsed.v) THEN Throw(TypeError("verdict"))
  ELSE Return(VerificationOf(parsed.v, Citations(response)))

\* the try block of verifyText from the call of parseJSON, which ended as
\* parsed, to the return statement
VerifyParsed(parsed, response) ==
  IF ~parsed.ok THEN Throw(JError(MalformedMsg))
  ELSE IF PropThrows(parsed.v) THEN Throw(TypeError("verdict"))
  ELSE Return(VerificationOf(parsed.v, Citations(response)))

\* the try block of verifyText once generateContent has settled
VerifyTry(outcome) ==
  IF outcome.kind = "throw" THEN Throw(outcome.err)
  ELSE IF ~Truthy(outcome.text) THEN Throw(JError(NoResponseMsg))
  ELSE VerifyParsed(parseJSON(outcome.text.s), outcome)

\* the catch block re-throws only the malformed-response error
IsUserFriendly_MalformedOnly(error) ==
  /\ error.message # ""
  /\ Includes(error.message, "malformed")

\* the test of the catch block: is the error re-thrown as it is
IsUserFriendly(error) ==
  /\ error.message # ""
  /\ (Includes(error.message, "malformed") \/ Includes(error.message, "No response"))

\* the catch block of verifyText, for a try block that ended as r
VerifyCatch(r) ==
  IF r.ok THEN r
  ELSE IF IsUserFriendly(r.err) THEN r
  ELSE Throw(JError(GenericVerifyMsg))

\* verifyText, given how its generateContent call settled
verifyText(outcome) == VerifyCatch(VerifyTry(outcome))

\* one fallback for both the failed call and the empty text
generateSummary_OneFallback(outcome) ==
  IF outcome.kind = "throw" THEN Return(JStr(SummaryFailedText))
  ELSE Return(Or(outcome.text, JStr(SummaryFailedText)))

\* no catch block: the error of the call goes to the caller
generateSummary_NoCatch(outcome) ==
  IF outcome.kind = "throw" THEN Throw(outcome.err)
  ELSE Return(Or(outcome.text, JStr(SummaryEmptyText)))

\* generateSummary, given how its generateContent call settled
generateSummary(outcome) ==
  IF outcome.kind = "throw" THEN Return(JStr(SummaryFailedText))
  ELSE Return(Or(outcome.text, JStr(SummaryEmptyText)))

\* empty response text is treated as a failed transcription
performOCR_ThrowOnEmpty(outcome) ==
  IF outcome.kind = "throw" \/ ~Truthy(outcome.text) THEN Throw(JError(OcrFailedMsg))
  ELSE Return(outcome.text)

\* performOCR, given how its generateContent call settled
performOCR(outcome) ==
  IF outcome.kind = "throw" THEN Throw(JError(OcrFailedMsg))
  ELSE Return(Or(outcome.text, JStr("")))

----------------------------------------------------------------------------
(* Bounds and inputs *)

\* grounding chunks in one response
MaxChunks == 2
\* pipeline invocations started in one run
MaxInv == 2

\* response texts of the fact-check call
ObjectTexts ==
  { "{\"verdict\":\"True\",\"confidence\":95,\"explanation\":\"Confirmed by NASA.\",\"category\":\"Science\"}",
    "{\"verdict\": \"False\", \"confidence\": 0, \"summary\": \"From the model\"}",
    "{}",
    "{\"verdict\":\"Misleading\"}",
    "{\"confidence\":40}",
    "{\"category\":\"Medical\",\"explanation\":\"\"}",
    "{\"verdict\":\"Partly true\",\"confidence\":50}",
    "{\"verdict\":\"true\"}",
    "{\"verdict\":null,\"confidence\":null}",
    "{\"verdict\":7,\"confidence\":\"high\"}",
    "{\"verdict\":\"\",\"confidence\":\"\"}",
    "{\"verdict\":[\"True\"],\"confidence\":[]}",
    "{\"verdict\":\"Unverified\",\"confidence\":150}",
    "{\"verdict\":\"False\",\"confidence\":-5}",
    "{\"verdict\":\"False\",\"confidence\":99.5}",
    "{\"verdict\":\"True\",\"confidence\":100.0}",
    "{\"verdict\":\"True\",\"confidence\":true}",
    "{\"verdict\":\"True\",\"verdict\":\"False\",\"confidence\":100}",
    "{\"category\":\"Sports\",\"confidence\":{\"value\":90}}" }

WrappedTexts ==
  { "Here is the result: {\"verdict\":\"True\",\"confidence\":80} Hope this helps.",
    "~~~json\n{\"verdict\":\"False\",\"confidence\":90}\n~~~",
    "{\\\"verdict\\\":\\\"Misleading\\\",\\\"confidence\\\":60}",
    "{\\n\"verdict\":\"True\"\\n}" }

NonObjectTexts == { "null", "42", "0", "\"True\"", "[]", "true", " null\n" }

UnparseableTexts ==
  { "I cannot verify this claim.",
    "{\"verdict\":\"True\",\"confidence\":",
    "{\"verdict\":\"True\"} or {\"verdict\":\"False\"}",
    "} {",
    "{verdict: True}",
    " " }

ResponseTexts == ObjectTexts \cup WrappedTexts \cup NonObjectTexts \cup UnparseableTexts

TextValues == {JUndefined, JStr("")} \cup {JStr(s) : s \in ResponseTexts}

ChunkShapes ==
  { Chunk(Web(JStr("https://nasa.gov/sun"), JStr("NASA"))),
    Chunk(Web(JStr("https://who.int/news"), JUndefined)),
    Chunk(Web(JUndefined, JStr("No link"))),
    Chunk(JUndefined) }

RECURSIVE SeqsUpTo(_, _)
SeqsUpTo(S, n) ==
  IF n = 0 THEN {<<>>}
  ELSE LET shorter == SeqsUpTo(S, n - 1) IN
       shorter \cup {Append(q, x) : q \in shorter, x \in S}

CandidateValues ==
  {JUndefined, JArr(<<>>), JArr(<<Candidate(JUndefined)>>),
   JArr(<<Candidate(GroundingMetadata(JUndefined))>>)}
  \cup {JArr(<<Candidate(GroundingMetadata(JArr(q)))>>) : q \in SeqsUpTo(ChunkShapes, MaxChunks)}

\* messages of the errors a generateContent call is rejected with
BackendErrorMsgs ==
  { "fetch failed",
    "got status: 429 Too Many Requests. Quota exceeded.",
    "API key not valid. Please pass a valid API key.",
    "",
    "No response received from server",
    "Request contains a malformed field." }

Rejections == {Rejected(JError(m)) : m \in BackendErrorMsgs}

\* how the fact-check call can settle
VerifyOutcomes == Rejections \cup {Response(tx, c) : tx \in TextValues, c \in CandidateValues}

\* how a call without search grounding can settle
PlainOutcomes(texts) == Rejections \cup {Response(tx, JUndefined) : tx \in texts}

SummaryOutcomes ==
  PlainOutcomes({JUndefined, JStr(""), JStr("False claim: the sun has not turned green."), JStr(" ")})

OcrOutcomes ==
  PlainOutcomes({JUndefined, JStr(""), JStr("  \n\t "), JStr(" Drinking hot water cures flu \n"),
                 JStr("{\"verdict\":\"True\"}")})

\* the claims handed to the service functions
ClaimTexts == {"NASA confirmed the sun turned green", "5G towers spread viruses"}

----------------------------------------------------------------------------
(* State *)

VARIABLES
  view,       \* App: the page shown
  isLoading,  \* App: the in-progress flag
  error,      \* App: null or the message shown
  result,     \* App: null or the VerificationResult shown
  inputText,  \* App: the text of the input box
  inv,        \* the invocations of handleVerify and handleImageUpload, in start order
  svc         \* a service function called on its own: its call and how it settled

appVars == <<view, isLoading, error, result, inputText, inv>>
vars == <<view, isLoading, error, result, inputText, inv, svc>>

Init ==
  /\ view = "home"
  /\ isLoading = FALSE
  /\ error = JNull
  /\ result = JNull
  /\ inputText = ""
  /\ inv = <<>>
  /\ svc = [pc |-> "idle"]

----------------------------------------------------------------------------
(* App: handleVerify, handleImageUpload, goHome and the controls that call them *)

NoLegibleTextMsg == "Could not detect legible text in the image."
VerifyFallbackMsg == "Something went wrong."
ImageFallbackMsg == "Failed to process image."

\* how the backend calls of the pipeline settle
PipelineVerifyOutcomes ==
  { Rejected(JError("fetch failed")),
    Response(JUndefined, JUndefined),
    Response(JStr("{\"verdict\": \"False\", \"confidence\": 0, \"summary\": \"From the model\"}"),
             JArr(<<Candidate(GroundingMetadata(JArr(<<Chunk(Web(JStr("https://nasa.gov/sun"), JUndefined))>>)))>>)) }

PipelineSummaryOutcomes ==
  { Rejected(JError("fetch failed")),
    Response(JStr(""), JUndefined),
    Response(JStr("False claim: the sun has not turned green."), JUndefined) }

PipelineOcrOutcomes ==
  { Rejected(JError("fetch failed")),
    Response(JUndefined, JUndefined),
    Response(JStr("  \n\t "), JUndefined),
    Response(JStr(" Drinking hot water cures flu \n"), JUndefined) }

\* what the user types, and the texts of DEMO_EXAMPLES
TypedTexts == {" \n", "NASA confirmed the sun turned green"}
DemoTexts == {"NASA confirmed the sun turned green", " "}
\* e.target.files of the file input
FileLists == {<<>>, <<[type |-> "image/png"]>>}

\* the local state of an invocation that has just started
NewInv(kind, arg, pc, calls) ==
  [kind |-> kind, arg |-> arg, pc |-> pc, calls |-> calls,
   extractedText |-> JUndefined, verification |-> JUndefined,
   summary |-> JUndefined, err |-> JUndefined, composed |-> JUndefined]

\* a call of a service function: pending until its generateContent call
\* settles, then returned or threw, with the value or the error
CallOf(fn, args) ==
  [fn |-> fn, args |-> args, status |-> "pending", backend |-> JUndefined, out |-> JUndefined]

\* the call log once its last call has settled as r on the backend outcome o
Settled(calls, o, r) ==
  [calls EXCEPT ![Len(calls)].status = IF r.ok THEN "returned" ELSE "threw",
                ![Len(calls)].backend = o,
                ![Len(calls)].out = IF r.ok THEN r.v ELSE r.err]

\* the message of the catch block when the error carries none
FallbackMsg(kind) == IF kind = "text" THEN VerifyFallbackMsg ELSE ImageFallbackMsg

\* the message of the error is dropped and the fallback always shown
MessageOr_FallbackOnly(err, fallback) == fallback

\* err.message || fallback
MessageOr(err, fallback) == IF err.message # "" THEN err.message ELSE fallback

\* a summary that came with the model payload is kept
Compose_KeepsPayloadSummary(verification, summary) ==
  [verification EXCEPT !.summary = Or(@, summary)]

\* { ...verification, summary }
Compose(verification, summary) == [verification EXCEPT !.summary = summary]

\* a service call that threw is made once more before the error is shown
Fails_RetryOnce(i, calls, message) ==
  IF /\ calls # <<>>
     /\ calls[Len(calls)].status = "threw"
     /\ \A k \in 1..(Len(calls) - 1) : calls[k].fn # calls[Len(calls)].fn
  THEN /\ inv' = [inv EXCEPT ![i].calls =
                    Append(calls, CallOf(calls[Len(calls)].fn, calls[Len(calls)].args))]
       /\ UNCHANGED <<isLoading, error, result>>
  ELSE /\ inv' = [inv EXCEPT ![i].pc = "failed", ![i].calls = calls, ![i].err = JStr(message)]
       /\ error' = JStr(message)
       /\ isLoading' = FALSE
       /\ UNCHANGED result

\* catch and finally of invocation i: the error is shown and loading ends
Fails(i, calls, message) ==
  /\ inv' = [inv EXCEPT ![i].pc = "failed", ![i].calls = calls, ![i].err = JStr(message)]
  /\ error' = JStr(message)
  /\ isLoading' = FALSE
  /\ UNCHANGED result

\* the early return on blank text is missing
handleVerify_NoGuard(text) ==
  /\ Len(inv) < MaxInv
  /\ isLoading' = TRUE
  /\ error' = JNull
  /\ result' = JNull
  /\ inv' = Append(inv, NewInv("text", JStr(text), "verify",
                               <<CallOf("verifyText", <<JStr(text)>>)>>))

\* handleVerify(text) up to its first await
handleVerify(text) ==
  IF Trim(text) = "" THEN UNCHANGED <<isLoading, error, result, inv>>
  ELSE /\ Len(inv) < MaxInv
       /\ isLoading' = TRUE
       /\ error' = JNull
       /\ result' = JNull
       /\ inv' = Append(inv, NewInv("text", JStr(text), "verify",
                                    <<CallOf("verifyText", <<JStr(text)>>)>>))

\* handleImageUpload(e) up to its first await
handleImageUpload(files) ==
  IF Len(files) = 0 THEN UNCHANGED <<isLoading, error, result, inv>>
  ELSE /\ Len(inv) < MaxInv
       /\ isLoading' = TRUE
       /\ error' = JNull
       /\ result' = JNull
       /\ inv' = Append(inv, NewInv("image", JStr(files[1].type), "reading", <<>>))

\* the buttons of the home page
SetView ==
  \E v \in {"text", "screenshot", "demo", "sources"} :
    /\ view = "home"
    /\ view' = v
    /\ UNCHANGED <<isLoading, error, result, inputText, inv, svc>>

\* the textarea of the text page
ChangeInput ==
  \E text \in TypedTexts :
    /\ view = "text"
    /\ ~isLoading
    /\ inputText' = text
    /\ UNCHANGED <<view, isLoading, error, result, inv, svc>>

\* the Verify Now button
ClickVerify ==
  /\ view = "text"
  /\ ~(isLoading \/ Trim(inputText) = "")
  /\ handleVerify(inputText)
  /\ UNCHANGED <<view, inputText, svc>>

\* the Verify This button of a demo example
ClickDemo ==
  \E text \in DemoTexts :
    /\ view = "demo"
    /\ inputText' = text
    /\ view' = "text"
    /\ handleVerify(text)
    /\ UNCHANGED svc

\* the file input of the screenshot page
ChangeFile ==
  \E files \in FileLists :
    /\ view = "screenshot"
    /\ ~isLoading
    /\ handleImageUpload(files)
    /\ UNCHANGED <<view, inputText, svc>>

goHome ==
  /\ view # "home"
  /\ view' = "home"
  /\ result' = JNull
  /\ inputText' = ""
  /\ error' = JNull
  /\ isLoading' = FALSE
  /\ UNCHANGED <<inv, svc>>

\* reader.onload: the promise resolves and performOCR is called
ReaderLoads(i) ==
  /\ inv[i].pc = "reading"
  /\ inv' = [inv EXCEPT ![i].pc = "ocr",
                        ![i].calls = Append(@, CallOf("performOCR", <<JStr("base64"), inv[i].arg>>))]
  /\ UNCHANGED <<view, isLoading, error, result, inputText, svc>>

\* no onerror handler: on a read error the promise never settles
ReaderFails_NeverSettles(i) ==
  /\ inv[i].pc = "reading"
  /\ inv' = [inv EXCEPT ![i].pc = "stuck"]
  /\ UNCHANGED <<view, isLoading, error, result, inputText, svc>>

\* reader.onerror: the promise rejects with an event, which has no message
ReaderFails(i) ==
  /\ inv[i].pc = "reading"
  /\ Fails(i, inv[i].calls, ImageFallbackMsg)
  /\ UNCHANGED <<view, inputText, svc>>

\* handleImageUpload after the await of performOCR, which settled as r on
\* the backend outcome o
AfterOCR(i, o, r) ==
  /\ inv[i].pc = "ocr"
  /\ IF ~r.ok
     THEN Fails(i, Settled(inv[i].calls, o, r), MessageOr(r.err, ImageFallbackMsg))
          /\ UNCHANGED inputText
     ELSE /\ inputText' = r.v.s
          /\ IF Trim(r.v.s) = ""
             THEN /\ inv' = [inv EXCEPT ![i].pc = "failed", ![i].extractedText = r.v,
                                        ![i].calls = Settled(@, o, r),
                                        ![i].err = JStr(NoLegibleTextMsg)]
                  /\ error' = JStr(NoLegibleTextMsg)
                  /\ isLoading' = FALSE
                  /\ UNCHANGED result
             ELSE /\ inv' = [inv EXCEPT ![i].pc = "verify", ![i].extractedText = r.v,
                                        ![i].calls = Append(Settled(@, o, r),
                                                            CallOf("verifyText", <<r.v>>))]
                  /\ UNCHANGED <<isLoading, error, result>>
  /\ UNCHANGED <<view, svc>>

\* performOCR settles in handleImageUpload
OcrSettles(i) == \E o \in PipelineOcrOutcomes : AfterOCR(i, o, performOCR(o))

\* handleVerify or handleImageUpload after the await of verifyText, which
\* settled as r on the backend outcome o
AfterVerify(i, o, r) ==
  /\ inv[i].pc = "verify"
  /\ IF ~r.ok
     THEN Fails(i, Settled(inv[i].calls, o, r), MessageOr(r.err, FallbackMsg(inv[i].kind)))
     ELSE /\ inv' = [inv EXCEPT ![i].pc = "summary", ![i].verification = r.v,
                                ![i].calls = Append(Settled(@, o, r),
                                                    CallOf("generateSummary",
                                                           <<r.v.explanation, r.v.verdict>>))]
          /\ UNCHANGED <<isLoading, error, result>>
  /\ UNCHANGED <<view, inputText, svc>>

\* verifyText settles in handleVerify or handleImageUpload
VerifySettles(i) == \E o \in PipelineVerifyOutcomes : AfterVerify(i, o, verifyText(o))

\* handleVerify or handleImageUpload after the await of generateSummary,
\* which settled as r on the backend outcome o
AfterSummary(i, o, r) ==
  /\ inv[i].pc = "summary"
  /\ IF ~r.ok
     THEN Fails(i, Settled(inv[i].calls, o, r), MessageOr(r.err, FallbackMsg(inv[i].kind)))
     ELSE /\ inv' = [inv EXCEPT ![i].pc = "done", ![i].summary = r.v,
                                ![i].calls = Settled(@, o, r),
                                ![i].composed = Compose(inv[i].verification, r.v)]
          /\ result' = Compose(inv[i].verification, r.v)
          /\ isLoading' = FALSE
          /\ UNCHANGED error
  /\ UNCHANGED <<view, inputText, svc>>

\* generateSummary settles in handleVerify or handleImageUpload
SummarySettles(i) == \E o \in PipelineSummaryOutcomes : AfterSummary(i, o, generateSummary(o))

Next ==
  \/ SetView
  \/ ChangeInput
  \/ ClickVerify
  \/ ClickDemo
  \/ ChangeFile
  \/ goHome
  \/ \E i \in 1..Len(inv) : ReaderLoads(i)
  \/ \E i \in 1..Len(inv) : ReaderFails(i)
  \/ \E i \in 1..Len(inv) : OcrSettles(i)
  \/ \E i \in 1..Len(inv) : VerifySettles(i)
  \/ \E i \in 1..Len(inv) : SummarySettles(i)

Spec == Init /\ [][Next]_vars

\* the next event of invocation i: the FileReader fires onload or onerror, or
\* the backend call it awaits settles
Advance(i) ==
  \/ ReaderLoads(i)
  \/ ReaderFails(i)
  \/ OcrSettles(i)
  \/ VerifySettles(i)
  \/ SummarySettles(i)

\* every read and every backend call eventually returns or throws, and the
\* continuation of the await then runs
Fairness == \A i \in 1..MaxInv : WF_vars(i <= Len(inv) /\ Advance(i))

SpecFair == Spec /\ Fairness

----------------------------------------------------------------------------
(* The service functions called on their own *)

\* a caller starts fn(args): the generateContent request is sent
ServiceCall(fn, args) ==
  /\ svc.pc = "idle"
  /\ svc' = [pc |-> "awaiting", fn |-> fn, args |-> args]
  /\ UNCHANGED appVars

CallVerifyText == \E text \in ClaimTexts : ServiceCall("verifyText", <<JStr(text)>>)

CallGenerateSummary ==
  \E explanation \in {JStr("Confirmed by NASA."), JStr("No explanation provided.")},
     verdict \in {JStr("True"), JStr("Unverified")} :
    ServiceCall("generateSummary", <<explanation, verdict>>)

CallPerformOCR ==
  \E mimeType \in {"image/png", "image/jpeg"} :
    ServiceCall("performOCR", <<JStr("iVBORw0KGgo="), JStr(mimeType)>>)

Settle(fn, outcome, out) ==
  /\ svc.pc = "awaiting"
  /\ svc.fn = fn
  /\ svc' = [pc |-> "settled", fn |-> fn, args |-> svc.args, outcome |-> outcome, out |-> out]
  /\ UNCHANGED appVars

VerifyTextSettles == \E o \in VerifyOutcomes : Settle("verifyText", o, verifyText(o))

GenerateSummarySettles == \E o \in SummaryOutcomes : Settle("generateSummary", o, generateSummary(o))

PerformOCRSettles == \E o \in OcrOutcomes : Settle("performOCR", o, performOCR(o))

\* parseJSON is synchronous
CallParseJSON ==
  \E text \in ResponseTexts :
    /\ svc.pc = "idle"
    /\ svc' = [pc |-> "settled", fn |-> "parseJSON", args |-> <<JStr(text)>>,
               outcome |-> JUndefined, out |-> parseJSON(text)]
    /\ UNCHANGED appVars

ServiceDone ==
  /\ svc.pc = "settled"
  /\ svc' = [pc |-> "idle"]
  /\ UNCHANGED appVars

NextService ==
  \/ CallVerifyText
  \/ CallGenerateSummary
  \/ CallPerformOCR
  \/ CallParseJSON
  \/ VerifyTextSettles
  \/ GenerateSummarySettles
  \/ PerformOCRSettles
  \/ ServiceDone

SpecService == Init /\ [][NextService]_vars

----------------------------------------------------------------------------
(* Properties *)

\* s is empty or holds white space only
IsBlank(s) == \A k \in 1..Len(s) : Ch(s, k) \in {" ", "\t", "\n", "\r", "\f"}

Invs == 1..Len(inv)

\* the positions of the calls of fn in the call log of invocation i
CallsTo(i, fn) == {k \in 1..Len(inv[i].calls) : inv[i].calls[k].fn = fn}

\* the service function fn, called on its own, has settled
SettledFn(fn) == svc.pc = "settled" /\ svc.fn = fn

\* ... on a backend call that succeeded with empty response text
EmptyResponse == svc.outcome.kind = "response" /\ svc.outcome.text \in {JUndefined, JStr("")}

\* C1: on the image path, when performOCR returns empty or whitespace-only
\* text the invocation fails with "Could not detect legible text in the
\* image." and has called neither verifyText nor generateSummary.
C1_NoLegibleText ==
  \A i \in Invs : \A k \in CallsTo(i, "performOCR") :
    (inv[i].calls[k].status = "returned" /\ IsBlank(inv[i].calls[k].out.s))
      => /\ inv[i].pc = "failed"
         /\ inv[i].err = JStr("Could not detect legible text in the image.")
         /\ CallsTo(i, "verifyText") = {}
         /\ CallsTo(i, "generateSummary") = {}

C1_Witness ==
  \E i \in Invs : \E k \in CallsTo(i, "performOCR") :
    /\ inv[i].calls[k].status = "returned"
    /\ inv[i].calls[k].out.s # ""
    /\ IsBlank(inv[i].calls[k].out.s)
    /\ inv[i].pc = "failed"

\* the last call of invocation i, a call of performOCR or verifyText, throws
\* in this step
ThrowsNow(i) ==
  LET k == Len(inv[i].calls) IN
  /\ k > 0
  /\ inv[i].calls[k].fn \in {"performOCR", "verifyText"}
  /\ inv[i].calls[k].status = "pending"
  /\ inv'[i].calls[k].status = "threw"

\* C2: in the step in which performOCR or verifyText throws, the invocation
\* goes to Failed without making a further call, the message of the thrown
\* error is shown and no result is set; a Failed invocation takes no further
\* step, so it never sets a result.
C2_ExceptionsFail ==
  [][\A i \in Invs :
       /\ ThrowsNow(i) =>
            /\ inv'[i].pc = "failed"
            /\ Len(inv'[i].calls) = Len(inv[i].calls)
            /\ error' = JStr(inv'[i].calls[Len(inv[i].calls)].out.message)
            /\ result' = result
            /\ inv'[i].composed = JUndefined
       /\ inv[i].pc = "failed" => inv'[i] = inv[i]]_vars

C2_Witness ==
  \E i, j \in Invs :
    /\ inv[i].pc = "failed" /\ inv[j].pc = "failed"
    /\ \E k \in CallsTo(i, "verifyText") : inv[i].calls[k].status = "threw"
    /\ \E k \in CallsTo(j, "performOCR") : inv[j].calls[k].status = "threw"

\* C3 as claimed: generateSummary returns "Verification complete." both when
\* the backend call fails and when it succeeds with empty response text.
C3_SameFallback ==
  (SettledFn("generateSummary") /\ (svc.outcome.kind = "throw" \/ EmptyResponse))
    => svc.out = Return(JStr("Verification complete."))

\* C3 as amended: generateSummary returns "Verification complete." when the
\* backend call fails and "Check verified sources." when it succeeds with
\* empty response text.
C3_TwoFallbacks ==
  SettledFn("generateSummary") =>
    /\ svc.outcome.kind = "throw" => svc.out = Return(JStr("Verification complete."))
    /\ EmptyResponse => svc.out = Return(JStr("Check verified sources."))

C3_Witness ==
  /\ SettledFn("generateSummary")
  /\ EmptyResponse
  /\ svc.out = Return(JStr("Check verified sources."))

\* C4: every settled generateSummary call of the pipeline returned a string,
\* "Verification complete." when its backend call failed, and an invocation
\* whose verifyText returned is never Failed.
C4_SummaryNeverFails ==
  \A i \in Invs :
    /\ \A k \in CallsTo(i, "generateSummary") :
         inv[i].calls[k].status # "pending" =>
           /\ inv[i].calls[k].status = "returned"
           /\ inv[i].calls[k].out.t = "str"
           /\ inv[i].calls[k].backend.kind = "throw" =>
                inv[i].calls[k].out = JStr("Verification complete.")
    /\ (\E k \in CallsTo(i, "verifyText") : inv[i].calls[k].status = "returned")
         => inv[i].pc # "failed"

C4_Witness ==
  \E i \in Invs : \E k \in CallsTo(i, "generateSummary") :
    /\ inv[i].calls[k].status = "returned"
    /\ inv[i].calls[k].backend.kind = "throw"
    /\ inv[i].pc = "done"
    /\ result # JNull

\* C5: when the backend call of verifyText succeeds with empty response text,
\* verifyText throws the error "No response from verification model" and
\* returns no result.
C5_EmptyResponseThrows ==
  (SettledFn("verifyText") /\ EmptyResponse)
    => svc.out = Throw(JError("No response from verification model"))

C5_Witness ==
  /\ SettledFn("verifyText")
  /\ svc.outcome.kind = "response"
  /\ svc.outcome.text = JStr("")
  /\ ~svc.out.ok

\* the response text of the settled verifyText call is non-empty
HasText == svc.outcome.kind = "response" /\ Truthy(svc.outcome.text)

\* C6: when the response text is non-empty and parseJSON fails on it,
\* verifyText throws the error whose message says the response was malformed
\* and to try again, which is not the error of a transport failure, and
\* returns no result.
C6_MalformedThrows ==
  (SettledFn("verifyText") /\ HasText /\ ~parseJSON(svc.outcome.text.s).ok)
    => /\ ~svc.out.ok
       /\ svc.out.err.name = "Error"
       /\ svc.out.err.message = "The AI verification response was malformed or incomplete. This can happen with ambiguous inputs or temporary service glitches. Please try again."
       /\ svc.out.err.message # "Failed to process verification request. Please check your internet connection or try again later."

C6_Witness ==
  /\ SettledFn("verifyText")
  /\ HasText
  /\ svc.outcome.text.s \in UnparseableTexts
  /\ ~svc.out.ok
  /\ Includes(svc.out.err.message, "malformed")

\* C7 as claimed: whatever error the backend call of verifyText is rejected
\* with, verifyText throws the generic error with the connectivity message.
C7_BackendErrorsGeneric ==
  (SettledFn("verifyText") /\ svc.outcome.kind = "throw")
    => svc.out = Throw(JError("Failed to process verification request. Please check your internet connection or try again later."))

Verdicts == {JStr("True"), JStr("False"), JStr("Unverified"), JStr("Misleading")}

\* C8 as claimed: the verdict of every result verifyText returns is one of
\* True, False, Unverified, Misleading.
C8_VerdictInEnum ==
  (SettledFn("verifyText") /\ svc.out.ok) => svc.out.v.verdict \in Verdicts

\* C9 as claimed: the confidence of every result verifyText returns is an
\* integer in 0..100.
C9_ConfidenceInRange ==
  (SettledFn("verifyText") /\ svc.out.ok)
    => /\ svc.out.v.confidence.t = "num"
       /\ AllZero(svc.out.v.confidence.frac)
       /\ svc.out.v.confidence.n <= 100
       /\ (svc.out.v.confidence.neg => svc.out.v.confidence.n = 0)

\* the field of the parsed response text is missing
Missing(field) == GetProp(parseJSON(svc.outcome.text.s).v, field) = JUndefined

\* C10 as claimed: for every response text that parseJSON accepts verifyText
\* returns a result, in which each field missing from the parsed value has its
\* default.
C10_ParseableGivesResult ==
  (SettledFn("verifyText") /\ HasText /\ parseJSON(svc.outcome.text.s).ok)
    => /\ svc.out.ok
       /\ Missing("confidence") => svc.out.v.confidence = JInt(0)
       /\ Missing("verdict") => svc.out.v.verdict = JStr("Unverified")
       /\ Missing("category") => svc.out.v.category = JStr("Other")
       /\ Missing("explanation") => svc.out.v.explanation = JStr("No explanation provided.")

\* the grounding chunks of the first candidate of the settled call; none when
\* the candidates, the first candidate's metadata or its chunks are absent
FirstCandidateChunks ==
  LET c == svc.outcome.candidates IN
  IF c.t # "arr" \/ c.a = <<>> THEN <<>>
  ELSE IF c.a[1].groundingMetadata.t # "obj" THEN <<>>
  ELSE IF c.a[1].groundingMetadata.groundingChunks.t # "arr" THEN <<>>
  ELSE c.a[1].groundingMetadata.groundingChunks.a

\* the chunk exposes a web URI
ExposesUri(chunk) ==
  /\ chunk.web.t = "obj"
  /\ chunk.web.uri.t = "str"
  /\ chunk.web.uri.s # ""

\* C11: the citations of a verifyText result are the grounding chunks of the
\* first candidate that expose a web URI, in order: as many citations as such
\* chunks, the k-th with the URI of the k-th such chunk and its title, or
\* "Source Link" when the chunk has no title; no chunks at any level gives no
\* citations.
C11_CitationsAreUriChunks ==
  (SettledFn("verifyText") /\ svc.out.ok)
    => LET exposing == SelectSeq(FirstCandidateChunks, ExposesUri)
           citations == svc.out.v.citations
       IN /\ Len(citations) = Len(exposing)
          /\ \A k \in 1..Len(exposing) :
               /\ citations[k].url = exposing[k].web.uri
               /\ citations[k].title =
                    (IF exposing[k].web.title = JUndefined THEN JStr("Source Link")
                     ELSE exposing[k].web.title)

\* a result whose second chunk was skipped for having no URI and whose cited
\* chunk has no title
C11_Witness ==
  /\ SettledFn("verifyText")
  /\ svc.out.ok
  /\ Len(FirstCandidateChunks) = 2
  /\ ~ExposesUri(FirstCandidateChunks[1])
  /\ ExposesUri(FirstCandidateChunks[2])
  /\ svc.out.v.citations = <<[title |-> JStr("Source Link"), url |-> JStr("https://who.int/news")]>>

\* invocation i has started and has reached neither Done nor Failed
Running(i) == inv[i].pc \notin {"done", "failed"}

\* C12 as claimed: while an invocation of handleVerify or handleImageUpload
\* has started and has reached neither Done nor Failed, isLoading is true.
C12_LoadingWhileRunning ==
  \A i \in Invs : Running(i) => isLoading

\* s has no brace character
BraceFree(s) == \A k \in 1..Len(s) : Ch(s, k) \notin {"{", "}"}

\* C13 as claimed: parseJSON fails for every text without a brace character.
C13_BraceFreeFails ==
  (SettledFn("parseJSON") /\ BraceFree(svc.args[1].s)) => ~svc.out.ok

\* C14: performOCR returns "" when its backend call succeeds with empty
\* response text, fails with the error "Failed to read text from image. Ensure
\* the image is clear." whenever its backend call fails, and otherwise returns
\* the response text.
C14_OcrOutcomes ==
  SettledFn("performOCR")
    => /\ EmptyResponse => svc.out = Return(JStr(""))
       /\ svc.outcome.kind = "throw"
            => svc.out = Throw(JError("Failed to read text from image. Ensure the image is clear."))
       /\ HasText => svc.out = Return(svc.outcome.text)

\* performOCR has returned "" for a response without text
C14_Witness ==
  /\ SettledFn("performOCR")
  /\ svc.outcome.kind = "response"
  /\ svc.outcome.text = JUndefined
  /\ svc.out = Return(JStr(""))

\* the service functions an invocation calls, in order
PathOf(kind) ==
  IF kind = "image" THEN <<"performOCR", "verifyText", "generateSummary">>
  ELSE <<"verifyText", "generateSummary">>

\* C15: the calls of an invocation are a prefix of performOCR, verifyText,
\* generateSummary on the image path and of verifyText, generateSummary on the
\* text path; a call is made only once the one before it has returned, so no
\* function is called twice and only the last call can be outstanding.
C15_CallsInOrder ==
  \A i \in Invs :
    LET calls == inv[i].calls IN
    /\ Len(calls) <= Len(PathOf(inv[i].kind))
    /\ \A k \in 1..Len(calls) : calls[k].fn = PathOf(inv[i].kind)[k]
    /\ \A k \in 1..(Len(calls) - 1) : calls[k].status = "returned"

\* an image invocation has made its three calls, and a text invocation has
\* stopped at a verifyText that threw for a response without text
C15_Witness ==
  /\ \E i \in Invs : inv[i].kind = "image" /\ Len(inv[i].calls) = 3 /\ inv[i].pc = "done"
  /\ \E i \in Invs :
       /\ inv[i].kind = "text"
       /\ Len(inv[i].calls) = 1
       /\ inv[i].calls[1].status = "threw"
       /\ inv[i].calls[1].out = JError(NoResponseMsg)

\* no call of verifyText in the call logs has blank text
NoBlankVerify(log) ==
  \A i \in 1..Len(log) : \A k \in 1..Len(log[i].calls) :
    log[i].calls[k].fn = "verifyText" => ~IsBlank(log[i].calls[k].args[1].s)

\* C16: verifyText is never called with empty or whitespace-only text: a demo
\* example with blank text leaves isLoading, error, result and the
\* invocations as they were, and an image whose text is blank fails before
\* verifyText.
C16_NeverVerifiesBlank ==
  [][/\ NoBlankVerify(inv')
     /\ (view = "demo" /\ view' = "text" /\ IsBlank(inputText'))
          => UNCHANGED <<isLoading, error, result, inv>>]_vars

\* the blank demo example was pressed after an image without legible text
\* had failed, and nothing was called for either
C16_Witness ==
  /\ view = "text"
  /\ inputText = " "
  /\ Len(inv) = 1
  /\ inv[1].kind = "image"
  /\ inv[1].pc = "failed"
  /\ inv[1].err = JStr(NoLegibleTextMsg)
  /\ IsBlank(inv[1].extractedText.s)
  /\ CallsTo(1, "verifyText") = {}

\* invocation i completes successfully in this step
Completes(i) == inv[i].pc = "summary" /\ inv'[i].pc = "done"

\* C17: when an invocation completes, the result handed to the UI has the
\* string generateSummary returned as its summary and the verdict, confidence,
\* explanation, category and citations verifyText returned, and the value
\* verifyText returned is kept as it was returned.
C17_ComposedResult ==
  [][\A i \in Invs : Completes(i) =>
       LET log == inv'[i].calls
           verified == log[Len(log) - 1]
           summarised == log[Len(log)]
       IN /\ verified.fn = "verifyText" /\ summarised.fn = "generateSummary"
          /\ result' = inv'[i].composed
          /\ result'.summary = summarised.out
          /\ result'.verdict = verified.out.verdict
          /\ result'.confidence = verified.out.confidence
          /\ result'.explanation = verified.out.explanation
          /\ result'.category = verified.out.category
          /\ result'.citations = verified.out.citations
          /\ inv'[i].verification = verified.out
          /\ inv'[i].verification = inv[i].verification]_vars

\* a completed invocation whose model payload carried a summary of its own:
\* the result shows the summary of generateSummary, the verification still
\* has the one of the payload
C17_Witness ==
  \E i \in Invs :
    /\ inv[i].pc = "done"
    /\ result = inv[i].composed
    /\ inv[i].verification.summary = JStr("From the model")
    /\ result.summary = JStr("False claim: the sun has not turned green.")
    /\ result.citations = inv[i].verification.citations
    /\ Len(result.citations) = 1

\* C18 as claimed: the UI state never holds a non-null error and a non-null
\* result at the same time.
C18_ErrorOrResult == ~(error # JNull /\ result # JNull)

\* invocation i reaches Done or Failed in this step
Ends(i) == Running(i) /\ ~Running(i)'

\* C19 as claimed: an invocation that ends after a later one was started does
\* not overwrite result, error or isLoading.
C19_StaleNeverOverwrites ==
  [][\A i \in Invs : (i < Len(inv) /\ Ends(i)) => UNCHANGED <<result, error, isLoading>>]_vars

\* C20: when every read and backend call settles, every started invocation
\* eventually reaches Done or Failed, where it stays; the step that takes it there sets
\* isLoading to false and sets result, leaving error, when it is Done, or sets
\* error, leaving result, when it has Failed.
C20_InvocationsEnd ==
  /\ \A i \in 1..MaxInv : <>[](i <= Len(inv) => ~Running(i))
  /\ [][\A i \in Invs : Ends(i) =>
          /\ isLoading' = FALSE
          /\ \/ inv'[i].pc = "done" /\ result' = inv'[i].composed /\ UNCHANGED error
             \/ inv'[i].pc = "failed" /\ error' = inv'[i].err /\ UNCHANGED result]_vars

\* one invocation is Done with its result shown, after another has Failed
C20_Witness ==
  /\ Len(inv) = 2
  /\ inv[1].pc = "failed"
  /\ inv[2].pc = "done"
  /\ ~isLoading
  /\ result = inv[2].composed

====
